---- MODULE Spec2Model ----
(***************************************************************************)
(* ButtonExtraBehavior (src/widgets/button_extra_behavior.py): the mixin   *)
(* that classifies touches into right/middle/scroll/double/long/single     *)
(* clicks with two Kivy clock events.                                      *)
(*                                                                         *)
(* The widget's fields are the variables.  The Kivy Clock is modelled as   *)
(* countdown events advanced frame by frame: the events that are due fire  *)
(* at the start of a frame, before the input of that frame is dispatched.  *)
(* The widget has no children (self.children is empty), and each input     *)
(* event reaches its handler once.  What the super class does with a       *)
(* forwarded press or release is outside the file and is recorded as an    *)
(* output only.                                                            *)
(***************************************************************************)
EXTENDS Integers, Sequences, FiniteSets, TLC

\* ------------------------------------------------------------ bounds ----
\* scroll_timeout changes allowed in one run
MaxTimeoutChanges == 1

\* ------------------------------------------------- time representation ---
\* long_time and double_time are seconds (floats); the model keeps them as
\* integers in units of 1/UnitsPerSecond s.
UnitsPerSecond == 10000
\* one Clock frame of 100 ms
Frame == UnitsPerSecond \div 10
\* long_time = NumericProperty(.25)
DefaultLongTime == 2500
\* double_time = NumericProperty(.2)
DefaultDoubleTime == 2000
\* a configured long_time below double_time
ShortLongTime == DefaultLongTime - (3 * Frame) \div 2
\* the widgets of a run: long_time, double_click_enabled, and whether a
\* ButtonBehavior in the MixIn provides trigger_action
Widgets == {<<DefaultLongTime, FALSE, TRUE>>, <<DefaultLongTime, TRUE, TRUE>>,
            <<ShortLongTime, TRUE, TRUE>>, <<DefaultLongTime, TRUE, FALSE>>}
\* values given to scroll_timeout, in milliseconds
ScrollTimeouts == {0, 100}
\* MsToSeconds without the factor .001
MsToSecondsUnscaled(ms) == ms
\* timeout * .001 : milliseconds to seconds
MsToSeconds(ms) == (ms * UnitsPerSecond) \div 1000

\* ------------------------------------------------------------ touches ---
NoTouch == [button |-> ""]
\* NoButton: a touch with no "button" in its profile (a finger)
NoButton == "none"
PrimaryButtons == {"left", NoButton}
AuxButtons == {"right", "middle", "scrollup", "scrolldown"}
Buttons == PrimaryButtons \cup AuxButtons
\* IsMouseScrolling for a release handler without the wheel test
IsMouseScrollingNever(t) == FALSE
\* touch.is_mouse_scrolling
IsMouseScrolling(t) == t.button \in {"scrollup", "scrolldown"}

VARIABLES
    long_time,             \* self.long_time
    double_time,           \* self.double_time
    double_click_enabled,  \* self.double_click_enabled
    scroll_timeout,        \* self.scroll_timeout
    has_trigger_action,    \* a ButtonBehavior in the MixIn provides trigger_action
    long_clock,            \* self._long_clock
    double_clock,          \* self._double_clock
    orphans,               \* events of the Clock the widget holds no handle of
    after_long_press,      \* self._after_long_press
    second_click,          \* self._second_click
    current_touch,         \* self._current_touch
    state,                 \* self.state
    primary,               \* the primary pointer when it is down
    aux,                   \* the right/middle/wheel pointer when it is down
    changes,               \* scroll_timeout changes so far
    last,                  \* the handler that ran last
    out,                   \* what the last handler sent out
    ep,                    \* history of the current episode
    hp                     \* history of the primary press being held

vars == <<long_time, double_time, double_click_enabled, scroll_timeout,
          has_trigger_action, long_clock, double_clock, orphans,
          after_long_press, second_click, current_touch, state, primary, aux,
          changes, last, out, ep, hp>>

config == <<long_time, double_time, double_click_enabled, scroll_timeout,
            has_trigger_action, changes>>
flags == <<after_long_press, second_click, current_touch>>

\* --------------------------------------------------------- ClockEvent ---
\* Clock.schedule_once(callback, timeout) followed by .cancel()
\* own and held are history. own, kept for send_press events: the touch
\* whose press scheduled the event is still self._current_touch. held, kept
\* for long_pressed events: that touch is still down
IdleEvent(timeout) == [armed |-> FALSE, timeout |-> timeout,
                       left |-> timeout, own |-> FALSE, held |-> FALSE]
\* event(): schedules the event unless it is scheduled already
Trigger(ev, own, held) ==
    IF ev.armed THEN ev
    ELSE [ev EXCEPT !.armed = TRUE, !.left = ev.timeout,
                    !.own = own, !.held = held]
\* history kept when another touch is recorded, and when the primary
\* pointer goes up
Disown(ev) == [ev EXCEPT !.own = FALSE]
DisownAll(s) == [i \in 1..Len(s) |-> Disown(s[i])]
Unhold(ev) == [ev EXCEPT !.held = FALSE]
UnholdAll(s) == [i \in 1..Len(s) |-> Unhold(s[i])]
\* what the program reads of an event
Status(ev) == <<ev.armed, ev.timeout, ev.left>>
\* event.cancel()
Cancel(ev) == IdleEvent(ev.timeout)

Min0(n) == IF n < 0 THEN 0 ELSE n
Elapse(ev) == IF ev.armed THEN [ev EXCEPT !.left = Min0(ev.left - Frame)]
              ELSE ev
ElapseAll(s) == [i \in 1..Len(s) |-> [s[i] EXCEPT !.left = Min0(s[i].left - Frame)]]
Due(ev) == ev.armed /\ ev.left = 0
AnyArmed == long_clock.armed \/ double_clock.armed \/ orphans # <<>>
AnyDue == Due(long_clock) \/ Due(double_clock)
          \/ \E i \in 1..Len(orphans) : orphans[i].left = 0
RemoveAt(s, i) == [j \in 1..(Len(s) - 1) |-> IF j < i THEN s[j] ELSE s[j + 1]]

\* ---------------------------------------------------------- outputs -----
Dispatch(name) == [ev |-> name, touch |-> ""]
ForwardPress(t) == [ev |-> "super.on_touch_down", touch |-> t.button]
ForwardRelease(t) == [ev |-> "super.on_touch_up", touch |-> t.button]
Activate == [ev |-> "super.trigger_action", touch |-> ""]

\* the handler that ran and, for a callback, the history of the event that
\* fired
Ran(h) == [h |-> h, who |-> "", hit |-> FALSE, own |-> FALSE, held |-> FALSE]
Fired(h, ev) == [Ran(h) EXCEPT !.own = ev.own, !.held = ev.held]
\* an input handler, the pointer it ran for, and whether the touch landed
\* on the widget
Touched(h, who, hit) == [Ran(h) EXCEPT !.who = who, !.hit = hit]

\* ---------------------------------------------------------- history -----
\* the counters of the history record none, one, several
Inc(n) == IF n < 2 THEN n + 1 ELSE n
\* presses: primary presses of the episode; n: classifications delivered
\* (single click, double click, long press); kinds: what was sent out
NewEpisode == [presses |-> 0, n |-> 0, kinds |-> {}]
Note(e, kind) == [e EXCEPT !.kinds = @ \cup {kind}]
Count(e, kind) == [e EXCEPT !.n = Inc(@), !.kinds = @ \cup {kind}]
\* dbl: on_double_click was dispatched at this press; long: on_long_press
\* dispatches, while it was held, of events its press had scheduled;
\* follows: on_double_click was dispatched at the primary press before it
NewHold == [dbl |-> FALSE, long |-> 0, follows |-> FALSE]
Quiescent == primary = NoTouch /\ ~AnyArmed

\* -------------------------------------------------------------- Init ----
Init ==
    /\ \E w \in Widgets : /\ long_time = w[1]
                          /\ double_click_enabled = w[2]
                          /\ has_trigger_action = w[3]
    /\ double_time = DefaultDoubleTime
    /\ scroll_timeout = 0
    /\ long_clock = IdleEvent(long_time)
    /\ double_clock = IdleEvent(double_time)
    /\ orphans = <<>>
    /\ after_long_press = FALSE
    /\ second_click = FALSE
    /\ current_touch = NoTouch
    /\ state = "normal"
    /\ primary = NoTouch
    /\ aux = NoTouch
    /\ changes = 0
    /\ last = Ran("__init__")
    /\ out = <<>>
    /\ ep = NewEpisode
    /\ hp = NewHold


\* ------------------------------------------------------ on_touch_down ---
\* lines 158-170: the notification of a right, middle or wheel press
AuxNotification(b) ==
    CASE b = "right" -> "on_right_click"
      [] b = "middle" -> "on_middle_click"
      [] b = "scrollup" -> "on_scroll_up"
      [] b = "scrolldown" -> "on_scroll_down"

\* OnAuxPress without its "return True": the press falls through to line 172
OnAuxPressFallsThrough(t) ==
    /\ current_touch' = t
    /\ after_long_press' = FALSE
    /\ second_click' = FALSE
    /\ out' = <<Dispatch(AuxNotification(t.button))>>
    /\ long_clock' = Trigger(long_clock, FALSE, TRUE)
    /\ double_clock' = Disown(double_clock)
    /\ orphans' = DisownAll(orphans)
    /\ UNCHANGED <<state, ep, hp>>

\* lines 155-170: the touch is recorded, both flags are reset, the
\* notification is dispatched and the handler returns
OnAuxPress(t) ==
    /\ current_touch' = t
    /\ after_long_press' = FALSE
    /\ second_click' = FALSE
    /\ out' = <<Dispatch(AuxNotification(t.button))>>
    /\ long_clock' = long_clock
    /\ double_clock' = Disown(double_clock)
    /\ orphans' = DisownAll(orphans)
    /\ UNCHANGED <<state, ep, hp>>

\* line 172: self._long_clock()
PressLongClock == Trigger(long_clock, FALSE, TRUE)

\* IsSecondClick that also counts the press after a double click
IsSecondClickOrFlag == double_clock.armed \/ second_click

\* line 173: if self._double_clock.is_triggered
IsSecondClick == double_clock.armed

\* DetectDouble with the test of double_click_enabled left out
DetectDoubleAlways == TRUE

\* line 179: elif self.double_click_enabled
DetectDouble == double_click_enabled

\* lines 155-157 and 172-184: the press of the primary button
OnPrimaryPress(t) ==
    LET e0 == IF Quiescent THEN NewEpisode ELSE ep
        e1 == [e0 EXCEPT !.presses = Inc(@)]
    IN
    /\ current_touch' = t
    /\ after_long_press' = FALSE
    /\ long_clock' = PressLongClock
    /\ orphans' = DisownAll(orphans)
    /\ IF IsSecondClick
       THEN /\ second_click' = TRUE
            /\ state' = "down"
            /\ double_clock' = Cancel(double_clock)
            /\ out' = <<Dispatch("on_double_click")>>
            /\ ep' = Count(e1, "double")
            /\ hp' = [NewHold EXCEPT !.dbl = TRUE, !.follows = hp.dbl]
       ELSE IF DetectDouble
       THEN /\ second_click' = FALSE
            /\ double_clock' = Trigger(double_clock, TRUE, FALSE)
            /\ state' = "down"
            /\ out' = <<>>
            /\ ep' = e1
            /\ hp' = [NewHold EXCEPT !.follows = hp.dbl]
       ELSE /\ second_click' = FALSE
            /\ double_clock' = double_clock
            /\ state' = state
            /\ out' = <<ForwardPress(t)>>
            /\ ep' = Note(e1, "press")
            /\ hp' = [NewHold EXCEPT !.follows = hp.dbl]

\* a press that lands on the widget (a press outside it runs no statement
\* of the handler)
on_touch_down(b) ==
    LET t == [button |-> b] IN
    /\ ~AnyDue
    /\ IF b \in AuxButtons THEN aux = NoTouch ELSE primary = NoTouch
    /\ primary' = IF b \in AuxButtons THEN primary ELSE t
    /\ aux' = IF b \in AuxButtons THEN t ELSE aux
    /\ last' = Touched("on_touch_down",
                        IF b \in AuxButtons THEN "aux" ELSE "primary", TRUE)
    /\ IF b \in AuxButtons THEN OnAuxPress(t) ELSE OnPrimaryPress(t)
    /\ UNCHANGED config

\* -------------------------------------------------------- on_touch_up ---
\* line 193: if self._long_clock.is_triggered
ReleaseBeforeLong == long_clock.armed

\* lines 193-208, for a release that lands on the widget and is no wheel
\* release; counted: the touch is the primary pointer
OnRelease(t, lc, counted) ==
    LET fwd == /\ out' = <<ForwardRelease(t)>>
               /\ ep' = IF counted THEN Count(ep, "release") ELSE ep
        eat == /\ out' = <<>>
               /\ ep' = ep
    IN
    IF ReleaseBeforeLong
    THEN /\ long_clock' = Cancel(lc)
         /\ IF double_click_enabled
            THEN /\ state' = IF second_click THEN "normal" ELSE state
                 /\ eat
            ELSE /\ state' = "normal"
                 /\ fwd
    ELSE /\ long_clock' = lc
         /\ IF second_click
            THEN state' = "normal" /\ eat
            ELSE IF after_long_press
            THEN state' = "normal" /\ eat
            ELSE state' = state /\ fwd

\* collide: the release lands on the widget
on_touch_up(which, collide) ==
    LET t == IF which = "aux" THEN aux ELSE primary
        lc == IF which = "aux" THEN long_clock ELSE Unhold(long_clock)
    IN
    /\ ~AnyDue
    /\ t # NoTouch
    /\ primary' = IF which = "aux" THEN primary ELSE NoTouch
    /\ aux' = IF which = "aux" THEN NoTouch ELSE aux
    /\ last' = Touched("on_touch_up", which, collide)
    /\ IF collide /\ ~IsMouseScrolling(t)
       THEN OnRelease(t, lc, which = "primary")
       ELSE /\ out' = <<>>
            /\ long_clock' = lc
            /\ UNCHANGED <<state, ep>>
    /\ orphans' = IF which = "aux" THEN orphans ELSE UnholdAll(orphans)
    /\ UNCHANGED <<config, flags, double_clock, hp>>

\* ------------------------------------------------------- long_pressed ---
\* line 235: self._double_clock.cancel()
LongCancelsDouble(dc) == Cancel(dc)

\* the callback, run with the event that fired already unscheduled
long_pressed(lc, dc, orph, ev) ==
    /\ after_long_press' = TRUE
    /\ out' = <<Dispatch("on_long_press")>>
    /\ double_clock' = LongCancelsDouble(dc)
    /\ long_clock' = lc
    /\ orphans' = orph
    /\ last' = Fired("long_pressed", ev)
    /\ ep' = Count(ep, "long")
    /\ hp' = IF ev.held THEN [hp EXCEPT !.long = Inc(@)] ELSE hp
    /\ UNCHANGED <<config, second_click, current_touch, state, primary, aux>>

\* --------------------------------------------------------- send_press ---
\* StillHeld with the test of the long-press event left out
StillHeldNever(lc) == FALSE

\* line 213: if self._long_clock.is_triggered
StillHeld(lc) == lc.armed

\* Replay with the test of scroll_timeout left out
ReplayAlways == TRUE

\* line 216: if not self.scroll_timeout
Replay == scroll_timeout = 0

send_press(lc, dc, orph, ev) ==
    /\ long_clock' = lc
    /\ double_clock' = dc
    /\ orphans' = orph
    /\ last' = Fired("send_press", ev)
    /\ IF StillHeld(lc)
       THEN /\ state' = "down"
            /\ out' = <<>>
            /\ ep' = ep
       ELSE /\ state' = "normal"
            /\ IF Replay
               THEN /\ out' = <<ForwardPress(current_touch),
                                ForwardRelease(current_touch)>>
                    /\ ep' = Count(ep, "replay")
               ELSE IF has_trigger_action
               THEN /\ out' = <<Activate>>
                    /\ ep' = Count(ep, "activate")
               ELSE /\ out' = <<>>
                    /\ ep' = ep
    /\ UNCHANGED <<config, flags, primary, aux, hp>>

\* ------------------------------------------------------------ Clock -----
FireLong ==
    /\ Due(long_clock)
    /\ long_pressed(Cancel(long_clock), double_clock, orphans, long_clock)

FireDouble ==
    /\ Due(double_clock)
    /\ send_press(long_clock, Cancel(double_clock), orphans, double_clock)

\* an event scheduled before on_scroll_timeout replaced the handle
FireOrphan(i) ==
    /\ orphans[i].left = 0
    /\ IF orphans[i].cb = "long_pressed"
       THEN long_pressed(long_clock, double_clock, RemoveAt(orphans, i),
                         orphans[i])
       ELSE send_press(long_clock, double_clock, RemoveAt(orphans, i),
                       orphans[i])

\* a frame passes: only while an event is scheduled and none is due
Tick ==
    /\ AnyArmed
    /\ ~AnyDue
    /\ long_clock' = Elapse(long_clock)
    /\ double_clock' = Elapse(double_clock)
    /\ orphans' = ElapseAll(orphans)
    /\ last' = Ran("tick")
    /\ out' = <<>>
    /\ UNCHANGED <<config, flags, state, primary, aux, ep, hp>>

\* -------------------------------------------------- on_scroll_timeout ---
\* lines 141 and 146: the handle is replaced; the event it pointed at stays
\* in the Clock when it is scheduled
Orphaned(ev, cb) ==
    IF ev.armed
    THEN <<[cb |-> cb, left |-> ev.left, own |-> ev.own, held |-> ev.held]>>
    ELSE <<>>

on_scroll_timeout(timeout) ==
    /\ ~AnyDue
    /\ timeout # scroll_timeout
    /\ changes < MaxTimeoutChanges
    /\ changes' = changes + 1
    /\ scroll_timeout' = timeout
    /\ long_time' = long_time + MsToSeconds(timeout)
    /\ long_clock' = IdleEvent(long_time')
    /\ double_time' = double_time + MsToSeconds(timeout)
    /\ double_clock' = IdleEvent(double_time')
    /\ orphans' = orphans \o Orphaned(long_clock, "long_pressed")
                          \o Orphaned(double_clock, "send_press")
    /\ last' = Ran("on_scroll_timeout")
    /\ out' = <<>>
    /\ UNCHANGED <<double_click_enabled, has_trigger_action, flags, state,
                   primary, aux, ep, hp>>

\* -------------------------------------------------------------- Next ----
Next ==
    \/ \E b \in Buttons : on_touch_down(b)
    \/ \E w \in {"primary", "aux"}, c \in BOOLEAN : on_touch_up(w, c)
    \/ FireLong
    \/ FireDouble
    \/ \E i \in 1..Len(orphans) : FireOrphan(i)
    \/ Tick
    \/ \E t \in ScrollTimeouts : on_scroll_timeout(t)

Spec == Init /\ [][Next]_vars

\* the primary pointer alone, every release on the widget, no change of
\* scroll_timeout: behaviours of Spec
NextPrimary ==
    \/ \E b \in PrimaryButtons : on_touch_down(b)
    \/ on_touch_up("primary", TRUE)
    \/ FireLong
    \/ FireDouble
    \/ Tick

SpecPrimary == Init /\ [][NextPrimary]_vars

\* the primary pointer and scroll_timeout changes: behaviours of Spec
NextConfig ==
    \/ NextPrimary
    \/ \E i \in 1..Len(orphans) : FireOrphan(i)
    \/ \E t \in ScrollTimeouts : on_scroll_timeout(t)

SpecConfig == Init /\ [][NextConfig]_vars

\* ===================================================== the claims ========
Notifications == {"on_right_click", "on_middle_click", "on_scroll_up",
                  "on_scroll_down", "on_double_click", "on_long_press"}
Sent(name) == \E i \in 1..Len(out) : out[i].ev = name
\* the primary pointer is up and no event of the Clock is scheduled
Complete == ep.presses >= 1 /\ Quiescent
PrimaryPressed == last.h = "on_touch_down" /\ last.who = "primary"
\* the release of the primary pointer, on the widget, ran last
PrimaryReleased == last.h = "on_touch_up" /\ last.who = "primary" /\ last.hit
LongPending == long_clock.armed
               \/ \E i \in 1..Len(orphans) : orphans[i].cb = "long_pressed"
SendPending == double_clock.armed
               \/ \E i \in 1..Len(orphans) : orphans[i].cb = "send_press"
PrimaryPressStep == primary = NoTouch /\ primary' # NoTouch
AuxPressStep == aux = NoTouch /\ aux' # NoTouch
AuxReleaseStep == aux # NoTouch /\ aux' = NoTouch
\* what the program can read of the scheduled events
TimerStatus == <<Status(long_clock), Status(double_clock),
                 [i \in 1..Len(orphans) |-> <<orphans[i].cb, orphans[i].left>>]>>

\* C1: every completed primary-button episode (press on the widget, release
\* on the widget, no event left scheduled) has produced exactly one of
\* single-click delivery, on_double_click, on_long_press.
C1_ExactlyOnePerEpisode == Complete => ep.n = 1

\* C2: with double_click_enabled, an episode of one primary press that was
\* released before the long-press event fired and saw no second press ends
\* with exactly one single-click delivery, made by send_press when the
\* double-click event fires, and nothing is forwarded before that.
C2_DeferredSingleClick ==
    /\ (double_click_enabled /\ Complete /\ ep.presses = 1
            /\ "long" \notin ep.kinds)
          => (ep.n = 1 /\ ep.kinds \in {{"replay"}, {"activate"}})
    /\ (double_click_enabled /\ ep.presses = 1 /\ "long" \notin ep.kinds
            /\ (Sent("super.on_touch_down") \/ Sent("super.on_touch_up")
                  \/ Sent("super.trigger_action")))
          => last.h = "send_press"

\* C3: with double_click_enabled, a primary press that arrives, after the
\* release of the press before it, while the double-click event that press
\* scheduled is still pending dispatches on_double_click in its own handler
\* and leaves no double-click event pending; no press/release replay follows
\* while the press is the recorded touch.
FirstPressPending ==
    \/ double_clock.armed /\ double_clock.own
    \/ \E i \in 1..Len(orphans) :
          orphans[i].cb = "send_press" /\ orphans[i].own
C3_DoubleClickOnSecondPress ==
    /\ [][(double_click_enabled /\ FirstPressPending /\ PrimaryPressStep)
            => (/\ out' = <<Dispatch("on_double_click")>>
                /\ last'.h = "on_touch_down"
                /\ ~SendPending')]_vars
    /\ [](hp.dbl => ~(last.h = "send_press" /\ Sent("super.on_touch_up")))

\* C4: a primary press held until on_long_press is dispatched gets exactly
\* one on_long_press; its release is consumed and leaves state "normal", and
\* the episode delivers nothing besides the long press.
C4_LongPressThenConsumedRelease ==
    /\ (PrimaryReleased /\ hp.long >= 1)
          => (hp.long = 1 /\ out = <<>> /\ state = "normal")
    /\ (Complete /\ ep.presses = 1 /\ hp.long >= 1)
          => (ep.n = 1 /\ ep.kinds \subseteq {"long", "press"})

\* C5: with double_click_enabled false, the primary press is forwarded by
\* the press handler, a release before the long press is forwarded by the
\* release handler and leaves no long-press event scheduled, on_long_press
\* is never dispatched for a press already released, and on_double_click is
\* never dispatched.
C5_ImmediateSingleClick ==
    ~double_click_enabled =>
        /\ PrimaryPressed => out = <<ForwardPress(current_touch)>>
        /\ (PrimaryReleased /\ hp.long = 0)
              => (Len(out) = 1 /\ out[1].ev = "super.on_touch_up"
                  /\ ~LongPending)
        /\ ~(last.h = "long_pressed" /\ ~last.held)
        /\ ~Sent("on_double_click")

\* C6: on_long_press is not dispatched while a press for which
\* on_double_click was dispatched is held.
C6_NeverDoubleAndLong == ~(hp.dbl /\ hp.long >= 1)

C8_IdleWhenResolved == Complete => state = "normal"

\* C9: with double_click_enabled false the double-click event is never
\* scheduled, on_double_click is never dispatched, and every primary press
\* on the widget is forwarded to the super class by the press handler.
C9_DisabledNeverDefers ==
    ~double_click_enabled =>
        /\ ~SendPending
        /\ ~Sent("on_double_click")
        /\ PrimaryPressed => out = <<ForwardPress(current_touch)>>

\* C9 witness: a primary press was forwarded by the press handler of a
\* widget without double-click detection, with the long-press event armed.
C9_Witness ==
    /\ ~double_click_enabled
    /\ PrimaryPressed
    /\ long_clock.armed
    /\ out = <<ForwardPress(current_touch)>>

\* C10: a change of scroll_timeout while an event is scheduled leaves the
\* episode as it was: the scheduled event keeps its deadline, and a release
\* of the primary pointer on the widget still leaves no long-press event
\* scheduled.
ScrollTimeoutStep == scroll_timeout' # scroll_timeout
Deadlines ==
    (IF long_clock.armed THEN {<<"long_pressed", long_clock.left>>} ELSE {})
    \cup (IF double_clock.armed THEN {<<"send_press", double_clock.left>>}
          ELSE {})
    \cup {<<orphans[i].cb, orphans[i].left>> : i \in 1..Len(orphans)}
C10_TimeoutChangeKeepsEpisode ==
    /\ [][ScrollTimeoutStep => Deadlines' = Deadlines]_vars
    /\ [](PrimaryReleased => ~LongPending)

\* C11: a change of scroll_timeout to T milliseconds adds T/1000 s to
\* long_time and to double_time and leaves both handles idle with the new
\* durations; a press that then arms the long-press or the double-click
\* event arms it with the full current duration, and the event fires only
\* when that time has run out.
ArmedFull(ev, duration) == Status(ev) = <<TRUE, duration, duration>>
C11_TimeoutChangeAddsSeconds ==
    /\ [][/\ ScrollTimeoutStep
               => (/\ long_time' * 1000
                       = long_time * 1000 + scroll_timeout' * UnitsPerSecond
                   /\ double_time' * 1000
                       = double_time * 1000 + scroll_timeout' * UnitsPerSecond
                   /\ Status(long_clock') = <<FALSE, long_time', long_time'>>
                   /\ Status(double_clock')
                       = <<FALSE, double_time', double_time'>>)
          /\ (PrimaryPressStep /\ ~long_clock.armed)
               => ArmedFull(long_clock', long_time)
          /\ (PrimaryPressStep /\ ~double_clock.armed /\ double_clock'.armed)
               => ArmedFull(double_clock', double_time)
          /\ (long_clock.armed /\ ~long_clock'.armed
                 /\ last'.h = "long_pressed")
               => long_clock.left = 0
          /\ (double_clock.armed /\ ~double_clock'.armed
                 /\ last'.h = "send_press")
               => double_clock.left = 0]_vars
    /\ [](long_clock.timeout = long_time /\ double_clock.timeout = double_time)

\* C11 witness: after the change from 0 to 100 ms a press armed both events
\* with the durations 0.35 s and 0.3 s.
C11_Witness ==
    /\ scroll_timeout = 100
    /\ PrimaryPressed
    /\ ArmedFull(long_clock, DefaultLongTime + UnitsPerSecond \div 10)
    /\ ArmedFull(double_clock, DefaultDoubleTime + UnitsPerSecond \div 10)

\* C12: when send_press runs with the long-press event not scheduled and
\* scroll_timeout set, it calls trigger_action and forwards no press or
\* release; on a widget without trigger_action it sends out nothing at all;
\* in both cases state is "normal" afterwards.
C12_ActivateOrSilentNoOp ==
    (last.h = "send_press" /\ ~long_clock.armed /\ scroll_timeout > 0)
        => (/\ out = IF has_trigger_action THEN <<Activate>> ELSE <<>>
            /\ state = "normal")

\* C12 witness: send_press ran with scroll_timeout set on a widget without
\* trigger_action, after the release of the press that scheduled it.
C12_Witness ==
    /\ last.h = "send_press" /\ last.own
    /\ ~long_clock.armed /\ scroll_timeout > 0
    /\ ~has_trigger_action
    /\ primary = NoTouch
    /\ out = <<>> /\ state = "normal"

\* C13: a release of the primary pointer on the widget leaves no
\* long-press event scheduled, whether or not scroll_timeout changed during
\* the hold, and long_pressed never runs for an event whose press has
\* already been released.
C13_NoLongPressAfterRelease ==
    /\ (last.h = "on_touch_up" /\ last.who = "primary" /\ last.hit)
          => (~long_clock.armed
              /\ \A i \in 1..Len(orphans) : orphans[i].cb # "long_pressed")
    /\ (last.h = "long_pressed") => last.held

\* C14: the press and release that send_press replays carry the touch of
\* the primary press that scheduled the double-click event: the recorded
\* touch is still that press's touch when the event fires, whatever was
\* pressed in between.
C14_ReplaysArmingTouch ==
    (last.h = "send_press" /\ Sent("super.on_touch_down"))
        => (/\ last.own
            /\ \A i \in 1..Len(out) : out[i].touch \in PrimaryButtons)

\* C15: a right, middle, scroll-up or scroll-down press leaves
\* _current_touch, _after_long_press, _second_click and state as they were.
C15_AuxPressKeepsEpisodeState ==
    [][AuxPressStep
         => (/\ current_touch' = current_touch
             /\ after_long_press' = after_long_press
             /\ second_click' = second_click
             /\ state' = state)]_vars

\* C16: when send_press runs while the long-press event is scheduled it
\* only sets state to "down": it sends out nothing, leaves the long-press
\* event, the flags and the recorded touch as they were, schedules nothing,
\* and the double-click event that fired is idle afterwards.
NumScheduled == (IF long_clock.armed THEN 1 ELSE 0)
                + (IF double_clock.armed THEN 1 ELSE 0) + Len(orphans)
SendPressStep ==
    /\ last'.h = "send_press"
    /\ \/ double_clock.armed /\ ~double_clock'.armed
       \/ Len(orphans') < Len(orphans)
C16_SendPressWhileHeld ==
    [][(SendPressStep /\ long_clock.armed)
         => (/\ out' = <<>>
             /\ state' = "down"
             /\ long_clock' = long_clock
             /\ flags' = flags
             /\ NumScheduled' = NumScheduled - 1
             /\ double_clock' # double_clock
                  => Status(double_clock')
                       = <<FALSE, double_time, double_time>>)]_vars

\* C16 witness: send_press ran for the press still held, with the
\* long-press event of that press scheduled.
C16_Witness ==
    /\ last.h = "send_press" /\ last.own
    /\ primary # NoTouch /\ current_touch = primary
    /\ long_clock.armed /\ long_clock.held
    /\ ~double_clock.armed
    /\ state = "down" /\ out = <<>>

\* C17: the release of a right or middle press is never forwarded to the
\* super class's on_touch_up.
C17_AuxReleaseNotForwarded ==
    [][(AuxReleaseStep /\ aux.button \in {"right", "middle"})
         => \A i \in 1..Len(out') : out'[i].ev # "super.on_touch_up"]_vars

\* C18: right after long_pressed ran the double-click handle is idle,
\* whether or not it was scheduled before, and send_press does not run
\* afterwards for the press whose long press was dispatched.
C18_LongPressCancelsDoubleClick ==
    /\ (last.h = "long_pressed")
          => Status(double_clock) = <<FALSE, double_time, double_time>>
    /\ ~(last.h = "send_press" /\ last.own /\ hp.long >= 1)

\* C19: the release of a wheel touch on the widget sends out nothing and
\* leaves both handles, every scheduled event, both flags, the recorded
\* touch and state as they were, also while a primary press is held with
\* the long-press event scheduled.
C19_WheelReleaseHasNoEffect ==
    [][(AuxReleaseStep /\ aux.button \in {"scrollup", "scrolldown"}
          /\ last'.hit)
         => (/\ out' = <<>>
             /\ long_clock' = long_clock
             /\ double_clock' = double_clock
             /\ orphans' = orphans
             /\ flags' = flags
             /\ state' = state)]_vars

\* C19 witness: a wheel touch was released on the widget while the primary
\* press is held and both of its events are still scheduled.
C19_Witness ==
    /\ last.h = "on_touch_up" /\ last.who = "aux" /\ last.hit
    /\ aux = NoTouch
    /\ current_touch.button = "scrollup"
    /\ primary # NoTouch
    /\ long_clock.armed /\ long_clock.held
    /\ double_clock.armed

\* C20: the primary press after a press that dispatched on_double_click
\* never dispatches on_double_click: the double-click press leaves the
\* double-click handle idle, and the next primary press schedules the
\* double-click event anew and sends out nothing when detection is enabled,
\* or is forwarded when it is disabled.
C20_NoConsecutiveDoubleClicks ==
    /\ [][(PrimaryPressStep /\ hp.dbl)
             => (/\ ~double_clock.armed
                 /\ \A i \in 1..Len(out') : out'[i].ev # "on_double_click"
                 /\ IF double_click_enabled
                    THEN /\ ArmedFull(double_clock', double_time)
                         /\ out' = <<>>
                    ELSE /\ ~double_clock'.armed
                         /\ out' = <<ForwardPress(primary')>>)]_vars
    /\ []((PrimaryPressed /\ hp.dbl) => ~double_clock.armed)
    /\ [](~(hp.dbl /\ hp.follows))

\* C20 witness: the third press of a triple click, made while the release
\* of the double-click press was the last thing that happened, scheduled
\* the double-click event anew.
C20_Witness ==
    /\ PrimaryPressed
    /\ hp.follows /\ ~hp.dbl
    /\ double_clock.armed /\ double_clock.own
    /\ double_clock.left = double_time
    /\ out = <<>>

====
